---- MODULE Spec2Model ----
(***************************************************************************)
(* ccg-gateway: bootstrap and persistent-configuration layer.              *)
(*                                                                         *)
(*   backend/app/core/config.py        Settings, DATA_DIR                  *)
(*   backend/app/core/database.py      engine, init_db, close_db           *)
(*   backend/app/services/init_service.py   init_default_data              *)
(*   backend/app/main.py               lifespan                            *)
(*                                                                         *)
(* One gateway process runs lifespan() against a SQLite store that outlives*)
(* the process.  Every await of the code is one step of the model; an      *)
(* await returns, raises, or is interrupted by task cancellation.          *)
(***************************************************************************)
EXTENDS Integers, Sequences, FiniteSets, TLC

\* ------------------------------------------------------------------ bounds
MaxRuns == 3        \* process starts against the same store
MaxClock == 2       \* readings of time.time() that can differ
MaxRequests == 1    \* requests handled while serving, per run
MaxSessions == 2    \* consumers of get_db() at a time
MaxConns == 2       \* connections the engine has open at a time

\* ------------------------------------------------------------ the store
\* for cli_type in ["claude_code", "codex", "gemini"]
CliTypes == <<"claude_code", "codex", "gemini">>

Tables == {"gateway", "timeout", "cli"}

\* A config an administrator wrote after seeding (any non-empty document).
EditedConfig == "{\"a\":1}"

\* GatewaySettings(id=1, updated_at=now)
GatewaySettings(now) == [id |-> 1, updated_at |-> now]

\* A mutant of TimeoutSettings: the idle and non-stream defaults are swapped.
TimeoutSettingsSwapped(now) ==
    [id |-> 1,
     stream_first_byte_timeout |-> 30,
     stream_idle_timeout |-> 120,
     non_stream_timeout |-> 60,
     updated_at |-> now]

\* TimeoutSettings(id=1, 30, 60, 120, updated_at=now)
TimeoutSettings(now) ==
    [id |-> 1,
     stream_first_byte_timeout |-> 30,
     stream_idle_timeout |-> 60,
     non_stream_timeout |-> 120,
     updated_at |-> now]

\* CliSettings(cli_type=cli_type, default_json_config="{}", updated_at=now)
CliSettings(cli_type, now) ==
    [cli_type |-> cli_type, default_json_config |-> "{}", updated_at |-> now]

\* The column each select filters on: GatewaySettings.id, TimeoutSettings.id,
\* CliSettings.cli_type.
KeyOf(table, row) == IF table = "cli" THEN row.cli_type ELSE row.id

EmptyStore == [tables |-> FALSE, gateway |-> <<>>, timeout |-> <<>>, cli |-> <<>>]

\* A session: the rows added and not yet committed (session.new), the rows
\* changed and not yet committed (session.dirty), and the value of `now`.
NoSession == [state |-> "none", now |-> 0, new |-> <<>>, dirty |-> <<>>]

RECURSIVE RowsOf(_, _, _)
\* The rows of `table` among the pending writes `ws` (<<table, row>> pairs).
RowsOf(ws, table, k) ==
    IF k > Len(ws) THEN <<>>
    ELSE (IF ws[k][1] = table THEN <<ws[k][2]>> ELSE <<>>) \o RowsOf(ws, table, k + 1)

\* What a statement of the session sees: the committed rows and, after the
\* autoflush that precedes every execute, the session's own inserts.
View(st, se, table) == st[table] \o RowsOf(se.new, table, 1)

\* A mutant of Select: the where clause is missing.
SelectAll(st, se, table, key) == View(st, se, table)

\* select(T).where(T.key == key)
Select(st, se, table, key) ==
    SelectSeq(View(st, se, table), LAMBDA r : KeyOf(table, r) = key)

\* result.scalar_one_or_none(): the row, None, or MultipleResultsFound.
ScalarOneOrNone(rows) ==
    IF Len(rows) = 0 THEN "None"
    ELSE IF Len(rows) = 1 THEN "row"
    ELSE "MultipleResultsFound"

\* A mutant of NeedsInsert: the existence check is dropped.
NeedsInsertAlways(found) == TRUE

\* if not result.scalar_one_or_none():
NeedsInsert(found) == found = "None"

\* A mutant of Add: the row is written over the stored one when it exists
\* (a merge instead of a conditional add).
AddOrMerge(se, found, table, row) ==
    IF NeedsInsert(found)
    THEN [se EXCEPT !.new = Append(@, <<table, row>>)]
    ELSE [se EXCEPT !.dirty = Append(@, <<table, row>>)]

\* if not ...: db.add(row)
Add(se, found, table, row) ==
    IF NeedsInsert(found)
    THEN [se EXCEPT !.new = Append(@, <<table, row>>)]
    ELSE se

\* The UPDATEs of a flush: each dirty row replaces the stored row of its key.
Updated(rows, ws, table) ==
    [k \in 1..Len(rows) |->
        LET hits == SelectSeq(RowsOf(ws, table, 1),
                              LAMBDA w : KeyOf(table, w) = KeyOf(table, rows[k]))
        IN IF Len(hits) = 0 THEN rows[k] ELSE hits[Len(hits)]]

\* A mutant of Commit: the commit also stamps every stored row with the
\* session's time.
CommitTouching(st, se) ==
    [t \in DOMAIN st |->
        IF t = "tables" THEN st[t]
        ELSE [k \in 1..Len(st[t]) |-> [st[t][k] EXCEPT !.updated_at = se.now]]
                \o RowsOf(se.new, t, 1)]

\* await db.commit(): the session's inserts and updates reach the store
\* together.
Commit(st, se) ==
    [t \in DOMAIN st |->
        IF t = "tables" THEN st[t]
        ELSE Updated(st[t], se.dirty, t) \o RowsOf(se.new, t, 1)]

\* A mutant of Rollback: leaving the session block commits what was added.
RollbackCommits(st, se) == Commit(st, se)

\* Leaving `async with async_session_maker() as db` on an exception closes
\* the session, which rolls its transaction back.
Rollback(st, se) == st

\* A mutant of create_all: the tables are dropped and created anew
\* (drop_all before create_all), which empties them.
create_all_fresh(st) == [EmptyStore EXCEPT !.tables = TRUE]

\* Base.metadata.create_all: creates the tables that are absent.
create_all(st) == [st EXCEPT !.tables = TRUE]

\* The number of rows of each entity.
Counts(st) == [t \in Tables |-> Len(st[t])]

\* --------------------------------------------------------------- state
VARIABLES
    store,      \* the committed content of ccg_gateway.db
    dataDir,    \* DATA_DIR exists on disk
    clock,      \* int(time.time())
    run,        \* which start of the process this is
    pc,         \* the statement lifespan() is at
    i,          \* the index of cli_type in the loop of init_default_data
    sess,       \* the session of init_default_data
    engine,     \* the process-wide engine: "none", "live" or "disposed"
    pending,    \* the exception in flight while the finally block runs
    exc,        \* the exception that left lifespan(), "none" if none did
    excAt,      \* the statement that raised it
    trace,      \* what this run of the process has done so far
    seedPre,    \* the store as init_default_data found it in this run
    seeds,      \* init_default_data calls that returned, over all runs
    after1,     \* the row counts the first such call left behind
    prev,       \* the run before this one: did its seeding fail, on which store
    sessions,   \* the sessions get_db() handed to its consumers
    out,        \* the connections checked out of the engine's pool
    frozen,     \* sys.frozen: the process runs as a bundled executable
    env,        \* the process environment
    envFile,    \* the file at get_env_file()
    settings,   \* the module-level `settings` object
    passes,     \* two init_default_data passes of two processes on one store
    writer,     \* the pass whose connection holds the store's write lock, or 0
    landed      \* per pass, the rows it has put into the committed store

vars == <<store, dataDir, clock, run, pc, i, sess, engine, pending, exc, excAt,
          trace, seedPre, seeds, after1, prev, sessions, out,
          frozen, env, envFile, settings, passes, writer, landed>>

\* The state of two init_default_data passes that share the store.
raceVars == <<passes, writer, landed>>

Passes == {1, 2}

\* A pass that has not begun: its place in init_default_data, the index of
\* its loop, its session, how many of the session's inserts are flushed into
\* its open transaction, and how it ended.
NoPass == [at |-> "idle", i |-> 1, sess |-> NoSession, flushed |-> 0,
           result |-> "none"]

\* What a run of the process finds and does not change.
cfgVars == <<frozen, env, envFile>>

\* The state of the consumers of get_db().
reqVars == <<sessions, out>>

\* The consumers of get_db(): request handlers that depend on it.
Requests == 1..MaxSessions

\* A consumer that holds no session.
NoRequest == [at |-> "idle", conn |-> 0, how |-> "none", held |-> FALSE]

\* What an await can do: return, raise, or be interrupted by cancellation.
Outcomes == {"ok", "fail", "cancel"}

SeedPcs == {"seed_gateway", "seed_timeout", "seed_cli", "seed_commit"}

Has(e) == \E k \in 1..Len(trace) : trace[k] = e

\* The number of times e happened in this run.
Times(e) == Cardinality({k \in 1..Len(trace) : trace[k] = e})

\* ---------------------------------------------------------------- config
\* A name that the environment or the file does not set.
Unset == "<unset>"

\* The names looked at: two fields of Settings, the first in the wrong case,
\* and a name Settings does not have.
NoVars == [GATEWAY_PORT |-> Unset, PROJECT_NAME |-> Unset,
           gateway_port |-> Unset, UNKNOWN |-> Unset]

\* Process environments.
Environs ==
    [GATEWAY_PORT : {Unset, "8080", "abc"}, PROJECT_NAME : {Unset, "EnvName"},
     gateway_port : {Unset, "1"}, UNKNOWN : {Unset, "x"}]

NoEnvFile == [present |-> FALSE, vars |-> NoVars]

\* The file at get_env_file(): missing, or setting some of the names.
EnvFiles ==
    {NoEnvFile} \cup
    {[present |-> TRUE, vars |-> v] :
        v \in [GATEWAY_PORT : {Unset, "9090", "abc"}, PROJECT_NAME : {Unset, "FileName"},
               gateway_port : {Unset, "1"}, UNKNOWN : {Unset, "x"}]}

\* get_base_dir(): the directory of the executable when frozen, else the
\* third parent of config.py.
get_base_dir(fr) == IF fr THEN "<exe-dir>" ELSE "<backend>"

\* get_env_file(): <base>/.env when frozen, else <parent of base>/.env.
get_env_file(fr) == IF fr THEN <<get_base_dir(fr), ".env">>
                    ELSE <<get_base_dir(fr), "..", ".env">>

\* Validation of a raw value for an `int` field.
ParseInt(raw) ==
    IF raw = "8080" THEN [ok |-> TRUE, val |-> 8080]
    ELSE IF raw = "9090" THEN [ok |-> TRUE, val |-> 9090]
    ELSE IF raw = "1" THEN [ok |-> TRUE, val |-> 1]
    ELSE [ok |-> FALSE, val |-> 0]

\* A mutant of Resolve: the file is looked at before the environment.
ResolveFileFirst(name, e, f) ==
    IF f.present /\ f.vars[name] # Unset THEN f.vars[name]
    ELSE IF e[name] # Unset THEN e[name]
    ELSE Unset

\* The raw value of the field `name` (case_sensitive = True: the name as
\* written): the environment's, else the file's, else none.
Resolve(name, e, f) ==
    IF e[name] # Unset THEN e[name]
    ELSE IF f.present /\ f.vars[name] # Unset THEN f.vars[name]
    ELSE Unset

\* Before Settings() has run, and after it raised.
NoSettings == [ok |-> FALSE, GATEWAY_PORT |-> 0, PROJECT_NAME |-> ""]

\* Settings(): each field from its raw value, validated against its type,
\* or its default; names that are no field are ignored (extra = "ignore").
Settings(e, f) ==
    LET port == Resolve("GATEWAY_PORT", e, f)
        name == Resolve("PROJECT_NAME", e, f)
    IN  IF port # Unset /\ ~ParseInt(port).ok THEN NoSettings
        ELSE [ok |-> TRUE,
              GATEWAY_PORT |-> IF port = Unset THEN 7788 ELSE ParseInt(port).val,
              PROJECT_NAME |-> IF name = Unset THEN "CCG-Gateway" ELSE name]

\* ------------------------------------------------- stores a start can find
RECURSIVE CliRows(_, _)
\* The CliSettings rows chosen by f: per CLI type "absent", or its config.
CliRows(f, k) ==
    IF k > Len(CliTypes) THEN <<>>
    ELSE (IF f[k] = "absent" THEN <<>>
          ELSE <<[CliSettings(CliTypes[k], 0) EXCEPT !.default_json_config = f[k]]>>)
         \o CliRows(f, k + 1)

\* Stores an earlier start, an administrator's edit or a partial external
\* failure left behind: any subset of the five baseline rows, each key at
\* most once, timeouts and configs as seeded or as edited.
FoundStores ==
    {EmptyStore} \cup
    { [tables |-> TRUE, gateway |-> g, timeout |-> t, cli |-> CliRows(f, 1)] :
        g \in {<<>>, <<GatewaySettings(0)>>},
        t \in {<<>>, <<TimeoutSettings(0)>>,
               <<[TimeoutSettings(0) EXCEPT !.stream_first_byte_timeout = 45,
                                            !.stream_idle_timeout = 90,
                                            !.non_stream_timeout = 150]>>},
        f \in [1..Len(CliTypes) -> {"absent", "{}", EditedConfig}] }

\* A process start on one of `stores`, in one of the surroundings `configs`
\* (<<frozen, environment, environment file>>).
InitOn(stores, configs) ==
    /\ store \in stores
    /\ \E c \in configs : frozen = c[1] /\ env = c[2] /\ envFile = c[3]
    /\ settings = NoSettings
    /\ passes = [p \in Passes |-> NoPass]
    /\ writer = 0
    /\ landed = [p \in Passes |-> {}]
    /\ dataDir \in {store.tables, TRUE}
    /\ clock = 1
    /\ run = 1
    /\ pc = "import"
    /\ i = 1
    /\ sess = NoSession
    /\ engine = "none"
    /\ pending = "none"
    /\ exc = "none"
    /\ excAt = "none"
    /\ trace = <<>>
    /\ seedPre = store
    /\ seeds = 0
    /\ after1 = Counts(EmptyStore)
    /\ prev = [seedFailed |-> FALSE, pre |-> store]
    /\ sessions = [r \in Requests |-> NoRequest]
    /\ out = {}

\* The surroundings of the lifecycle runs: nothing set, or a port in the
\* environment that is no number.
PlainConfigs ==
    {<<FALSE, NoVars, NoEnvFile>>,
     <<FALSE, [NoVars EXCEPT !.GATEWAY_PORT = "abc"], NoEnvFile>>}

Init == InitOn(FoundStores, PlainConfigs)

\* An exception leaves lifespan(): the process run ends.
Raise(e, at, event) ==
    /\ exc' = e
    /\ excAt' = at
    /\ pc' = "done"
    /\ trace' = Append(trace, event)

\* ------------------------------------------------------- module import
\* from app.core.config import settings: Settings() resolves, DATA_DIR is
\* created, then database.py builds the engine.
load_config_ok ==
    /\ pc = "import"
    /\ Settings(env, envFile).ok
    /\ settings' = Settings(env, envFile)
    /\ dataDir' = TRUE
    /\ engine' = "live"
    /\ pc' = "init_db"
    /\ trace' = trace \o <<"config", "mkdir", "engine">>
    /\ UNCHANGED <<store, clock, run, i, sess, pending, exc, excAt, seedPre, seeds, after1, prev, reqVars, cfgVars, raceVars>>

\* A mutant of load_config_fail: DATA_DIR is created before Settings() is
\* resolved.
load_config_fail_after_mkdir ==
    /\ pc = "import"
    /\ ~Settings(env, envFile).ok
    /\ dataDir' = TRUE
    /\ exc' = "ConfigurationError"
    /\ excAt' = "import"
    /\ pc' = "done"
    /\ trace' = trace \o <<"mkdir", "fail@import">>
    /\ UNCHANGED <<store, clock, run, i, sess, engine, pending, seedPre, seeds,
                   after1, prev, reqVars, cfgVars, settings, raceVars>>

\* Settings() raises: nothing after it in config.py or database.py runs.
load_config_fail ==
    /\ pc = "import"
    /\ ~Settings(env, envFile).ok
    /\ Raise("ConfigurationError", "import", "fail@import")
    /\ UNCHANGED <<store, dataDir, clock, run, i, sess, engine, pending, seedPre, seeds, after1, prev, reqVars, cfgVars, settings, raceVars>>

\* ---------------------------------------------------------------- init_db
\* A mutant of init_db_fail: the failure is swallowed and startup goes on.
init_db_fail_ignored ==
    /\ pc = "init_db"
    /\ pc' = "seed_begin"
    /\ trace' = Append(trace, "fail@init_db")
    /\ UNCHANGED <<store, dataDir, clock, run, i, sess, engine, pending, exc,
                   excAt, seedPre, seeds, after1, prev, reqVars, cfgVars, settings, raceVars>>

\* init_start_time(), then await init_db() returns.
init_db_ok ==
    /\ pc = "init_db"
    /\ store' = create_all(store)
    /\ pc' = "seed_begin"
    /\ trace' = Append(trace, "schema")
    /\ UNCHANGED <<dataDir, clock, run, i, sess, engine, pending, exc, excAt,
                   seedPre, seeds, after1, prev, reqVars, cfgVars, settings, raceVars>>

\* await init_db() raises: lifespan() has no handler around it.
init_db_fail ==
    /\ pc = "init_db"
    /\ Raise("SchemaError", "init_db", "fail@init_db")
    /\ UNCHANGED <<store, dataDir, clock, run, i, sess, engine, pending, seedPre, seeds, after1, prev, reqVars, cfgVars, settings, raceVars>>

\* The task is cancelled while init_db() is suspended; the DDL may or may
\* not have reached the store by then.
init_db_cancel ==
    /\ pc = "init_db"
    /\ store' \in {store, create_all(store)}
    /\ Raise("CancelledError", "init_db", "cancel@init_db")
    /\ UNCHANGED <<dataDir, clock, run, i, sess, engine, pending, seedPre, seeds, after1, prev, reqVars, cfgVars, settings, raceVars>>

\* ------------------------------------------------------ init_default_data
\* An exception leaves the `async with` block of init_default_data and then
\* lifespan(), which has no handler around the call.
seed_raise(e, event) ==
    /\ store' = Rollback(store, sess)
    /\ sess' = [sess EXCEPT !.state = "closed"]
    /\ Raise(e, "init_default_data", event)
    /\ UNCHANGED <<dataDir, clock, run, i, engine, pending, seedPre, seeds, after1, prev, reqVars, cfgVars, settings, raceVars>>

\* One select and its conditional add.  The select raises when the tables
\* are missing, scalar_one_or_none() when the key has more than one row.
seed_step(o, table, key, row, next, nexti) ==
    LET found == ScalarOneOrNone(Select(store, sess, table, key))
    IN  \/ /\ o = "ok"
           /\ IF ~store.tables \/ found = "MultipleResultsFound"
              THEN seed_raise("SeedError", "fail@seed")
              ELSE /\ sess' = Add(sess, found, table, row)
                   /\ pc' = next
                   /\ i' = nexti
                   /\ UNCHANGED <<store, dataDir, clock, run, engine, pending, exc,
                                  excAt, trace, seedPre, seeds, after1, prev, reqVars, cfgVars, settings, raceVars>>
        \/ /\ o = "fail"
           /\ seed_raise("SeedError", "fail@seed")
        \/ /\ o = "cancel"
           /\ seed_raise("CancelledError", "cancel@seed")

\* async with async_session_maker() as db: now = int(time.time())
init_default_data_begin ==
    /\ pc = "seed_begin"
    /\ sess' = [state |-> "open", now |-> clock, new |-> <<>>, dirty |-> <<>>]
    /\ seedPre' = store
    /\ i' = 1
    /\ pc' = "seed_gateway"
    /\ trace' = Append(trace, "seed_call")
    /\ UNCHANGED <<store, dataDir, clock, run, engine, pending, exc, excAt,
                   seeds, after1, prev, reqVars, cfgVars, settings, raceVars>>

\* Initialize gateway settings
init_default_data_gateway ==
    /\ pc = "seed_gateway"
    /\ \E o \in Outcomes :
         seed_step(o, "gateway", 1, GatewaySettings(sess.now), "seed_timeout", i)

\* Initialize timeout settings
init_default_data_timeout ==
    /\ pc = "seed_timeout"
    /\ \E o \in Outcomes :
         seed_step(o, "timeout", 1, TimeoutSettings(sess.now), "seed_cli", 1)

\* Initialize CLI settings: one turn of the loop.
init_default_data_cli ==
    /\ pc = "seed_cli"
    /\ \E o \in Outcomes :
         seed_step(o, "cli", CliTypes[i], CliSettings(CliTypes[i], sess.now),
                   IF i = Len(CliTypes) THEN "seed_commit" ELSE "seed_cli",
                   IF i = Len(CliTypes) THEN i ELSE i + 1)

\* await db.commit() returns, and init_default_data with it.
init_default_data_commit_ok ==
    /\ pc = "seed_commit"
    /\ store' = Commit(store, sess)
    /\ sess' = [sess EXCEPT !.state = "committed"]
    /\ pc' = "seeded"
    /\ trace' = Append(trace, "seed")
    /\ seeds' = seeds + 1
    /\ after1' = IF seeds = 0 THEN Counts(store') ELSE after1
    /\ UNCHANGED <<dataDir, clock, run, i, engine, pending, exc, excAt, seedPre, prev, reqVars, cfgVars, settings, raceVars>>

\* A mutant of init_default_data_commit_fail: the failure of the seeding is
\* caught, and startup goes on to serve.
init_default_data_commit_fail_ignored ==
    /\ pc = "seed_commit"
    /\ store' = Rollback(store, sess)
    /\ sess' = [sess EXCEPT !.state = "closed"]
    /\ pc' = "seeded"
    /\ trace' = Append(trace, "fail@seed")
    /\ UNCHANGED <<dataDir, clock, run, i, engine, pending, exc, excAt, seedPre,
                   seeds, after1, prev, reqVars, cfgVars, settings, raceVars>>

\* await db.commit() raises.
init_default_data_commit_fail ==
    /\ pc = "seed_commit"
    /\ seed_raise("SeedError", "fail@seed")

\* The task is cancelled while the commit is outstanding: the connection's
\* worker thread may or may not have completed it.
init_default_data_commit_cancel ==
    /\ pc = "seed_commit"
    /\ store' \in {Rollback(store, sess), Commit(store, sess)}
    /\ sess' = [sess EXCEPT !.state = "closed"]
    /\ Raise("CancelledError", "init_default_data", "cancel@seed")
    /\ UNCHANGED <<dataDir, clock, run, i, engine, pending, seedPre, seeds, after1, prev, reqVars, cfgVars, settings, raceVars>>

\* ---------------------------------------------------------------- lifespan
\* A mutant of lifespan_yield: lifespan() yields without the seeding having
\* run (the call to init_default_data is missing).
lifespan_yield_unseeded ==
    /\ pc \in {"seed_begin", "seeded"}
    /\ pc' = "yield"
    /\ trace' = Append(trace, "serving")
    /\ UNCHANGED <<store, dataDir, clock, run, i, sess, engine, pending, exc, excAt,
                   seedPre, seeds, after1, prev, reqVars, cfgVars, settings, raceVars>>

\* try: yield -- startup is complete and the application serves.
lifespan_yield ==
    /\ pc = "seeded"
    /\ pc' = "yield"
    /\ trace' = Append(trace, "serving")
    /\ UNCHANGED <<store, dataDir, clock, run, i, sess, engine, pending, exc, excAt,
                   seedPre, seeds, after1, prev, reqVars, cfgVars, settings, raceVars>>

\* A request is handled: the routers serve only while lifespan() is at its
\* yield.
handle_request ==
    /\ pc = "yield"
    /\ Times("request") < MaxRequests
    /\ trace' = Append(trace, "request")
    /\ UNCHANGED <<store, dataDir, clock, run, pc, i, sess, engine, pending, exc,
                   excAt, seedPre, seeds, after1, prev, reqVars, cfgVars, settings, raceVars>>

\* The server shuts down: the yield returns and the finally block runs.
lifespan_shutdown ==
    /\ pc = "yield"
    /\ pc' = "close_db"
    /\ pending' = "none"
    /\ trace' = Append(trace, "shutdown@yield")
    /\ UNCHANGED <<store, dataDir, clock, run, i, sess, engine, exc, excAt,
                   seedPre, seeds, after1, prev, reqVars, cfgVars, settings, raceVars>>

\* A mutant of lifespan_cancelled: no `except asyncio.CancelledError`, so
\* the cancellation is in flight while the finally block runs.
lifespan_cancelled_uncaught ==
    /\ pc = "yield"
    /\ pc' = "close_db"
    /\ pending' = "CancelledError"
    /\ trace' = Append(trace, "cancel@yield")
    /\ UNCHANGED <<store, dataDir, clock, run, i, sess, engine, exc, excAt,
                   seedPre, seeds, after1, prev, reqVars, cfgVars, settings, raceVars>>

\* except asyncio.CancelledError: pass -- then the finally block runs.
lifespan_cancelled ==
    /\ pc = "yield"
    /\ pc' = "close_db"
    /\ pending' = "none"
    /\ trace' = Append(trace, "cancel@yield")
    /\ UNCHANGED <<store, dataDir, clock, run, i, sess, engine, exc, excAt,
                   seedPre, seeds, after1, prev, reqVars, cfgVars, settings, raceVars>>

\* Another exception is thrown in at the yield: no except clause matches,
\* the finally block runs with the exception in flight.
lifespan_error ==
    /\ pc = "yield"
    /\ pc' = "close_db"
    /\ pending' = "AppError"
    /\ trace' = Append(trace, "fail@yield")
    /\ UNCHANGED <<store, dataDir, clock, run, i, sess, engine, exc, excAt,
                   seedPre, seeds, after1, prev, reqVars, cfgVars, settings, raceVars>>

\* finally: await close_db() -- engine.dispose() returns; an exception in
\* flight is raised again.
close_db_ok ==
    /\ pc = "close_db"
    /\ engine' = "disposed"
    /\ pc' = "done"
    /\ exc' = pending
    /\ excAt' = IF pending = "none" THEN "none" ELSE "yield"
    /\ pending' = "none"
    /\ trace' = trace \o <<"dispose_call", "dispose">>
    /\ UNCHANGED <<store, dataDir, clock, run, i, sess, seedPre, seeds, after1, prev, reqVars, cfgVars, settings, raceVars>>

\* engine.dispose() raises: nothing handles it, it leaves lifespan().
close_db_fail ==
    /\ pc = "close_db"
    /\ pending' = "none"
    /\ exc' = "DisposalError"
    /\ excAt' = "close_db"
    /\ pc' = "done"
    /\ trace' = trace \o <<"dispose_call", "fail@close_db">>
    /\ UNCHANGED <<store, dataDir, clock, run, i, sess, engine, seedPre, seeds, after1, prev, reqVars, cfgVars, settings, raceVars>>

\* The task is cancelled while engine.dispose() is suspended.
close_db_cancel ==
    /\ pc = "close_db"
    /\ engine' \in {"live", "disposed"}
    /\ pending' = "none"
    /\ exc' = "CancelledError"
    /\ excAt' = "close_db"
    /\ pc' = "done"
    /\ trace' = trace \o <<"dispose_call", "cancel@close_db">>
    /\ UNCHANGED <<store, dataDir, clock, run, i, sess, seedPre, seeds, after1, prev, reqVars, cfgVars, settings, raceVars>>

\* ------------------------------------------------------------ environment
\* The process is started again on the store the last run left behind.
Restart ==
    /\ pc = "done"
    /\ run < MaxRuns
    /\ run' = run + 1
    /\ pc' = "import"
    /\ i' = 1
    /\ sess' = NoSession
    /\ engine' = "none"
    /\ pending' = "none"
    /\ exc' = "none"
    /\ excAt' = "none"
    /\ trace' = <<>>
    /\ seedPre' = store
    /\ prev' = [seedFailed |-> Has("fail@seed"), pre |-> seedPre]
    /\ sessions' = [r \in Requests |-> NoRequest]
    /\ out' = {}
    /\ settings' = NoSettings
    /\ UNCHANGED <<store, dataDir, clock, seeds, after1, cfgVars, raceVars>>

\* time.time() advances.
Tick ==
    /\ clock < MaxClock
    /\ clock' = clock + 1
    /\ UNCHANGED <<store, dataDir, run, pc, i, sess, engine, pending, exc, excAt,
                   trace, seedPre, seeds, after1, prev, reqVars, cfgVars, settings, raceVars>>

\* One run of the process: the statements of lifespan() and what they call.
Lifecycle ==
    \/ load_config_ok
    \/ load_config_fail
    \/ init_db_ok
    \/ init_db_fail
    \/ init_db_cancel
    \/ init_default_data_begin
    \/ init_default_data_gateway
    \/ init_default_data_timeout
    \/ init_default_data_cli
    \/ init_default_data_commit_ok
    \/ init_default_data_commit_fail
    \/ init_default_data_commit_cancel
    \/ lifespan_yield
    \/ lifespan_shutdown
    \/ lifespan_cancelled
    \/ lifespan_error
    \/ close_db_ok
    \/ close_db_fail
    \/ close_db_cancel

Next ==
    \/ Lifecycle
    \/ handle_request
    \/ Restart
    \/ Tick

Spec == Init /\ [][Next]_vars

\* ------------------------------------------------------------------ get_db
\* A mutant of PoolOffer: the engine is built with a pool of one connection
\* that every checkout receives (poolclass=StaticPool).
PoolOfferStatic(busy) == {1}

\* The connections a checkout can receive from the engine as
\* create_async_engine builds it (no poolclass: the dialect's pool for a
\* database file): an idle or a newly opened one, never one checked out.
PoolOffer(busy) == {c \in 1..MaxConns : c \notin busy}

\* async with async_session_maker() as session: try: yield session
\* -- a request handler receives a session of its own; it holds no
\* connection before its first statement.
get_db_open ==
    /\ pc = "yield"
    /\ \E r \in Requests :
         /\ sessions[r].at \in {"idle", "done"}
         /\ sessions' = [sessions EXCEPT ![r] =
                            [at |-> "yielded", conn |-> 0, how |-> "none", held |-> FALSE]]
    /\ UNCHANGED <<store, dataDir, clock, run, pc, i, sess, engine, pending, exc,
                   excAt, trace, seedPre, seeds, after1, prev, out, cfgVars, settings, raceVars>>

\* The consumer runs its first statement: the session checks a connection
\* out of the engine's pool.
session_execute ==
    /\ \E r \in Requests : \E c \in PoolOffer(out) :
         /\ sessions[r].at = "yielded"
         /\ sessions[r].conn = 0
         /\ sessions' = [sessions EXCEPT ![r].conn = c, ![r].held = TRUE]
         /\ out' = out \cup {c}
    /\ UNCHANGED <<store, dataDir, clock, run, pc, i, sess, engine, pending, exc,
                   excAt, trace, seedPre, seeds, after1, prev, cfgVars, settings, raceVars>>

\* The consumer leaves: get_db() is resumed, or an exception is thrown in at
\* its yield; either way the finally block is entered.
get_db_leave(how) ==
    /\ \E r \in Requests :
         /\ sessions[r].at = "yielded"
         /\ sessions' = [sessions EXCEPT ![r].at = "finally", ![r].how = how]
    /\ UNCHANGED <<store, dataDir, clock, run, pc, i, sess, engine, pending, exc,
                   excAt, trace, seedPre, seeds, after1, prev, out, cfgVars, settings, raceVars>>

\* The consumer completed.
get_db_return == get_db_leave("return")

\* A mutant of get_db_error: get_db() without `async with` and without
\* try/finally -- an exception at the yield ends it with the session open.
get_db_error_unclosed ==
    /\ \E r \in Requests :
         /\ sessions[r].at = "yielded"
         /\ sessions' = [sessions EXCEPT ![r].at = "done", ![r].how = "error"]
    /\ UNCHANGED <<store, dataDir, clock, run, pc, i, sess, engine, pending, exc,
                   excAt, trace, seedPre, seeds, after1, prev, out, cfgVars, settings, raceVars>>

\* The consumer raised a business error.
get_db_error == get_db_leave("error")

\* The consumer's task was cancelled.
get_db_cancelled == get_db_leave("cancel")

\* finally: await session.close() -- the connection goes back to the pool.
get_db_close ==
    /\ \E r \in Requests :
         /\ sessions[r].at = "finally"
         /\ out' = out \ {sessions[r].conn}
         /\ sessions' = [sessions EXCEPT ![r].at = "aexit", ![r].conn = 0]
    /\ UNCHANGED <<store, dataDir, clock, run, pc, i, sess, engine, pending, exc,
                   excAt, trace, seedPre, seeds, after1, prev, cfgVars, settings, raceVars>>

\* The task is cancelled while session.close() is suspended in the finally
\* block: the connection may or may not have gone back by then.
get_db_close_cancelled ==
    /\ \E r \in Requests : \E back \in BOOLEAN :
         /\ sessions[r].at = "finally"
         /\ out' = IF back THEN out \ {sessions[r].conn} ELSE out
         /\ sessions' = [sessions EXCEPT ![r].at = "aexit", ![r].how = "cancel",
                                         ![r].conn = IF back THEN 0 ELSE @]
    /\ UNCHANGED <<store, dataDir, clock, run, pc, i, sess, engine, pending, exc,
                   excAt, trace, seedPre, seeds, after1, prev, cfgVars, settings, raceVars>>

\* Leaving `async with async_session_maker() as session`: the session is
\* closed (again), shielded from cancellation.
get_db_aexit ==
    /\ \E r \in Requests :
         /\ sessions[r].at = "aexit"
         /\ out' = out \ {sessions[r].conn}
         /\ sessions' = [sessions EXCEPT ![r].at = "done", ![r].conn = 0]
    /\ UNCHANGED <<store, dataDir, clock, run, pc, i, sess, engine, pending, exc,
                   excAt, trace, seedPre, seeds, after1, prev, cfgVars, settings, raceVars>>

NextSessions ==
    \/ Lifecycle
    \/ get_db_open
    \/ session_execute
    \/ get_db_return
    \/ get_db_error
    \/ get_db_cancelled
    \/ get_db_close
    \/ get_db_close_cancelled
    \/ get_db_aexit

\* One run of the gateway with its request handlers, started on a store
\* file that does not exist yet.
InitSessions == InitOn({EmptyStore}, PlainConfigs)

SpecSessions == InitSessions /\ [][NextSessions]_vars

\* ------------------------------------------------------ settings resolution
\* Every environment with every environment file, in both execution modes.
AllConfigs == {<<fr, e, f>> : fr \in BOOLEAN, e \in Environs, f \in EnvFiles}

\* One run of the process on a store file that does not exist yet, in any
\* surroundings.
InitConfig == InitOn({EmptyStore}, AllConfigs)

SpecConfig == InitConfig /\ [][Lifecycle]_vars

\* ------------------------------------------ two passes of init_default_data
\* Two processes run init_default_data against one store file (both are past
\* init_db).  A pass reads the committed rows and its own inserts; its
\* inserts are flushed into a transaction of its connection by the autoflush
\* of the next execute or by the commit, which takes the store's write lock
\* until the transaction ends.

\* The variables of the one-process lifecycle, which stand still here.
lifeVars == <<dataDir, clock, run, pc, i, sess, engine, pending, exc, excAt,
              trace, seedPre, seeds, after1, prev, reqVars, cfgVars, settings>>

\* The rows of st2 that st did not hold yet, as <<table, row>> pairs.
Landed(st, st2) ==
    {<<"gateway", st2.gateway[k]>> : k \in (Len(st.gateway) + 1)..Len(st2.gateway)}
    \cup {<<"timeout", st2.timeout[k]>> : k \in (Len(st.timeout) + 1)..Len(st2.timeout)}
    \cup {<<"cli", st2.cli[k]>> : k \in (Len(st.cli) + 1)..Len(st2.cli)}

\* The key of every entity is its primary key: the store takes no second row
\* with a key it holds.
UniqueKey(st, table, row) ==
    \A k \in 1..Len(st[table]) : KeyOf(table, st[table][k]) # KeyOf(table, row)

\* The inserts of the pass that are not flushed yet.
Unflushed(ps) == SubSeq(ps.sess.new, ps.flushed + 1, Len(ps.sess.new))

\* The flush of the pass can run: no other connection holds the write lock.
CanFlush(p) == Unflushed(passes[p]) = <<>> \/ writer \in {0, p}

\* The INSERTs of the flush are accepted by the store.
FlushOk(st, ps) ==
    \A k \in 1..Len(Unflushed(ps)) :
        UniqueKey(st, Unflushed(ps)[k][1], Unflushed(ps)[k][2])

\* The pass ends: its session is closed and the write lock, if it holds it,
\* is free again.
race_end(p, st, result) ==
    /\ store' = st
    /\ passes' = [passes EXCEPT ![p] = [@ EXCEPT !.at = "done", !.result = result,
                                                 !.sess.state = "closed"]]
    /\ writer' = IF writer = p THEN 0 ELSE writer
    /\ landed' = [landed EXCEPT ![p] = @ \cup Landed(store, st)]
    /\ UNCHANGED lifeVars

\* async with async_session_maker() as db: now = int(time.time())
race_begin(p) ==
    /\ passes[p].at = "idle"
    /\ store.tables
    /\ \E n \in 1..MaxClock :
         passes' = [passes EXCEPT ![p] =
                       [@ EXCEPT !.at = "gateway",
                                 !.sess = [state |-> "open", now |-> n,
                                           new |-> <<>>, dirty |-> <<>>]]]
    /\ UNCHANGED <<store, writer, landed, lifeVars>>

\* One execute (autoflush, then the select) and its conditional add.
race_step(p, table, key, row, next, nexti) ==
    LET ps == passes[p]
        found == ScalarOneOrNone(Select(store, ps.sess, table, key))
    IN  /\ CanFlush(p)
        /\ FlushOk(store, ps)
        /\ found # "MultipleResultsFound"
        /\ passes' = [passes EXCEPT ![p] =
                         [@ EXCEPT !.sess = Add(ps.sess, found, table, row),
                                   !.flushed = Len(ps.sess.new),
                                   !.at = next, !.i = nexti]]
        /\ writer' = IF Unflushed(ps) # <<>> THEN p ELSE writer
        /\ UNCHANGED <<store, landed, lifeVars>>

\* Initialize gateway settings
race_gateway(p) ==
    /\ passes[p].at = "gateway"
    /\ race_step(p, "gateway", 1, GatewaySettings(passes[p].sess.now), "timeout", 1)

\* Initialize timeout settings
race_timeout(p) ==
    /\ passes[p].at = "timeout"
    /\ race_step(p, "timeout", 1, TimeoutSettings(passes[p].sess.now), "cli", 1)

\* Initialize CLI settings: one turn of the loop.
race_cli(p) ==
    LET n == passes[p].i
    IN  /\ passes[p].at = "cli"
        /\ race_step(p, "cli", CliTypes[n], CliSettings(CliTypes[n], passes[p].sess.now),
                     IF n = Len(CliTypes) THEN "commit" ELSE "cli",
                     IF n = Len(CliTypes) THEN n ELSE n + 1)

\* await db.commit(): the last flush, then the transaction is committed.
race_commit(p) ==
    /\ passes[p].at = "commit"
    /\ CanFlush(p)
    /\ FlushOk(store, passes[p])
    /\ race_end(p, Commit(store, passes[p].sess), "committed")

\* A flush inserts a key that the other pass has committed since this pass
\* looked for it: the statement raises and the exception leaves the `async
\* with` block.
race_integrity_error(p) ==
    /\ passes[p].at \in {"timeout", "cli", "commit"}
    /\ CanFlush(p)
    /\ ~FlushOk(store, passes[p])
    /\ race_end(p, Rollback(store, passes[p].sess), "failed")

\* A mutant of race_fail: what the pass had flushed stays in the store.
race_fail_partial(p) ==
    /\ passes[p].at \in {"gateway", "timeout", "cli", "commit"}
    /\ race_end(p, Commit(store, [passes[p].sess EXCEPT
                                     !.new = SubSeq(@, 1, passes[p].flushed)]),
                "failed")

\* An await of the pass raises (the store stayed locked for the whole busy
\* timeout, an I/O error, a cancellation): the exception leaves the `async
\* with` block, which rolls the session back.
race_fail(p) ==
    /\ passes[p].at \in {"gateway", "timeout", "cli", "commit"}
    /\ race_end(p, Rollback(store, passes[p].sess), "failed")

NextRace ==
    \E p \in Passes :
        \/ race_begin(p)
        \/ race_gateway(p)
        \/ race_timeout(p)
        \/ race_cli(p)
        \/ race_commit(p)
        \/ race_integrity_error(p)
        \/ race_fail(p)

\* Both processes have applied the schema to one of the stores a start can
\* find.
InitRace ==
    InitOn({create_all(st) : st \in FoundStores}, {<<FALSE, NoVars, NoEnvFile>>})

SpecRace == InitRace /\ [][NextRace]_vars


\* ================================================================ claims
\* Each key of each entity is stored at most once.
NoDuplicateKeys(st) ==
    \A t \in Tables : \A a, b \in 1..Len(st[t]) :
        KeyOf(t, st[t][a]) = KeyOf(t, st[t][b]) => a = b

\* The rows of table t in st whose key is key.
RowsWithKey(st, t, key) == SelectSeq(st[t], LAMBDA r : KeyOf(t, r) = key)

\* The five baseline keys.
BaselineKeys ==
    {<<"gateway", 1>>, <<"timeout", 1>>} \cup
    {<<"cli", CliTypes[k]>> : k \in 1..Len(CliTypes)}

\* The number of rows in all the tables of st.
TotalRows(st) == Len(st.gateway) + Len(st.timeout) + Len(st.cli)

\* C1: however many times init_default_data has run to completion against
\* the store (once per start of the process), the store holds as many
\* GatewaySettings, TimeoutSettings and CliSettings rows as the first
\* completed run left.
C1_SeedIdempotent == seeds >= 1 => Counts(store) = after1

\* C1 witness: init_default_data has completed three times on one store.
C1_Witness == seeds >= 3 /\ Counts(store) = after1

\* C2: a startup that found the store without any row and got through
\* init_db and init_default_data leaves exactly one GatewaySettings row with
\* id 1, one TimeoutSettings row with id 1 and 30/60/120, and the three
\* CliSettings rows claude_code, codex and gemini, each with config "{}".
C2_FreshStartup ==
    (Has("seed") /\ TotalRows(seedPre) = 0) =>
        /\ Len(store.gateway) = 1
        /\ store.gateway[1].id = 1
        /\ Len(store.timeout) = 1
        /\ store.timeout[1].id = 1
        /\ store.timeout[1].stream_first_byte_timeout = 30
        /\ store.timeout[1].stream_idle_timeout = 60
        /\ store.timeout[1].non_stream_timeout = 120
        /\ Len(store.cli) = 3
        /\ {store.cli[k].cli_type : k \in 1..Len(store.cli)}
              = {"claude_code", "codex", "gemini"}
        /\ \A k \in 1..Len(store.cli) : store.cli[k].default_json_config = "{}"

\* C2 witness: the first start of the process, on a store file that did not
\* exist, has finished seeding.
C2_Witness ==
    /\ run = 1
    /\ pc = "seeded"
    /\ seedPre = create_all(EmptyStore)
    /\ TotalRows(store) = 5

\* C3: every CliSettings row that a start of the process found is still
\* there with the same default_json_config, and no key of any entity is
\* stored twice.
C3_ExistingConfigKept ==
    /\ \A k \in 1..Len(seedPre.cli) :
          LET rows == RowsWithKey(store, "cli", seedPre.cli[k].cli_type)
          IN  /\ Len(rows) = 1
              /\ rows[1].default_json_config = seedPre.cli[k].default_json_config
    /\ NoDuplicateKeys(store)

\* C3 witness: a later start has seeded a store that held an edited
\* CliSettings row, and rows were added in that very pass.
C3_Witness ==
    /\ run >= 2
    /\ Has("seed")
    /\ \E k \in 1..Len(seedPre.cli) : seedPre.cli[k].default_json_config = EditedConfig
    /\ Len(sess.new) > 0

\* C4: while init_default_data runs and after it failed, the store is as
\* the call found it; after it returned, the store is what the call found
\* plus every row the call added; a cancelled call left one or the other.
C4_SeedAllOrNothing ==
    LET all == [t \in DOMAIN store |->
                  IF t = "tables" THEN seedPre[t]
                  ELSE seedPre[t] \o RowsOf(sess.new, t, 1)]
    IN  /\ pc \in SeedPcs => store = seedPre
        /\ Has("fail@seed") => store = seedPre
        /\ Has("seed") => store = all
        /\ Has("cancel@seed") => store \in {seedPre, all}

\* C4 witness: the call failed after it had added rows.
C4_Witness == Has("fail@seed") /\ Len(sess.new) >= 2

\* C5: after init_default_data returned, each of the five baseline keys is
\* stored exactly once, and a key the call did not find holds the default
\* row stamped with the call's `now`.
C5_PartialStoreCompleted ==
    Has("seed") =>
        /\ TotalRows(store) = 5
        /\ \A tk \in BaselineKeys :
              LET rows == RowsWithKey(store, tk[1], tk[2])
                  old == RowsWithKey(seedPre, tk[1], tk[2])
                  fresh == IF tk[1] = "gateway" THEN GatewaySettings(sess.now)
                           ELSE IF tk[1] = "timeout" THEN TimeoutSettings(sess.now)
                           ELSE CliSettings(tk[2], sess.now)
              IN  /\ Len(rows) = 1
                  /\ Len(old) = 0 => rows[1] = fresh

\* C5 witness: the call completed a store that held some of the five rows
\* and lacked others.
C5_Witness ==
    /\ Has("seed")
    /\ TotalRows(seedPre) \in 1..4
    /\ TotalRows(store) = 5

\* The lifecycle has stopped: lifespan() returned after engine.dispose()
\* completed, and no exception left it.
Stopped == pc = "done" /\ exc = "none" /\ Has("dispose")

\* C6: once lifespan() is over after a cancellation at its yield (and no
\* further cancellation), the lifecycle has stopped and close_db() was called
\* exactly once.
C6_CancelInServingStops ==
    (pc = "done" /\ Has("cancel@yield") /\ ~Has("cancel@close_db")) =>
        (Stopped /\ Times("dispose_call") = 1)

\* C7: a cancellation delivered at the yield is caught: the lifecycle goes
\* on to close_db() with no exception in flight, and the CancelledError of
\* the yield never leaves lifespan().
C7_CancelInServingCaught ==
    Has("cancel@yield") =>
        /\ pc \in {"close_db", "done"}
        /\ pending # "CancelledError"
        /\ ~(exc = "CancelledError" /\ excAt = "yield")

\* C7 witness: lifespan() returned without an exception after a
\* cancellation at its yield.
C7_Witness == pc = "done" /\ Has("cancel@yield") /\ exc = "none"

\* The startup phases in the order the lifecycle prescribes them.
StartupPhases == <<"config", "schema", "seed_call", "seed", "serving">>

\* What the run has done of the startup, in the order it did it.
StartupDone == SelectSeq(trace, LAMBDA e : \E k \in 1..Len(StartupPhases) : e = StartupPhases[k])

\* C8: the startup phases a run has been through are an initial part of
\* config, schema, seed, serving, each phase at most once; a phase is under
\* way only when the ones before it completed; a request is handled only
\* after the seeding completed.
C8_StartupOrder ==
    /\ Len(StartupDone) <= Len(StartupPhases)
    /\ StartupDone = SubSeq(StartupPhases, 1, Len(StartupDone))
    /\ pc = "init_db" => StartupDone = SubSeq(StartupPhases, 1, 1)
    /\ pc = "seed_begin" => StartupDone = SubSeq(StartupPhases, 1, 2)
    /\ pc \in SeedPcs => StartupDone = SubSeq(StartupPhases, 1, 3)
    /\ pc = "seeded" => StartupDone = SubSeq(StartupPhases, 1, 4)
    /\ pc \in {"yield", "close_db"} => StartupDone = StartupPhases
    /\ Has("request") => (Has("seed") /\ Has("schema") /\ Has("config"))

\* C8 witness: a request was handled after a complete startup.
C8_Witness == Has("request") /\ StartupDone = StartupPhases

\* C9: once lifespan() is over after a cancellation at any of its awaits,
\* close_db() was called exactly once.
C9_AnyCancelDisposesOnce ==
    (pc = "done" /\ (Has("cancel@init_db") \/ Has("cancel@seed")
                     \/ Has("cancel@yield") \/ Has("cancel@close_db"))) =>
        Times("dispose_call") = 1

\* C10: when init_db() failed, the run is over with that error: it made no
\* call of init_default_data, completed no seeding and did not serve.
C10_SchemaErrorAborts ==
    Has("fail@init_db") =>
        /\ pc = "done"
        /\ exc = "SchemaError"
        /\ ~Has("seed_call")
        /\ ~Has("seed")
        /\ ~Has("serving")

\* C10 witness: init_db() failed on a start of the process.
C10_Witness == Has("fail@init_db") /\ pc = "done"

\* What a seeding that meets no failure leaves of the store `pre`: each
\* baseline key that `pre` lacks gets its default row stamped `now`.
SeededFrom(pre, now) ==
    [tables |-> TRUE,
     gateway |-> IF Len(pre.gateway) = 0 THEN <<GatewaySettings(now)>> ELSE pre.gateway,
     timeout |-> IF Len(pre.timeout) = 0 THEN <<TimeoutSettings(now)>> ELSE pre.timeout,
     cli |-> pre.cli \o
             SelectSeq([k \in 1..Len(CliTypes) |-> CliSettings(CliTypes[k], now)],
                       LAMBDA r : Len(RowsWithKey(pre, "cli", r.cli_type)) = 0)]

\* C11: a run whose seeding failed is over with that error and never served;
\* the next start of the process, once its seeding returned, has the store
\* that an unfailed seeding of the store the failed run found would leave.
C11_SeedErrorRetryable ==
    /\ Has("fail@seed") =>
          (pc = "done" /\ exc = "SeedError" /\ ~Has("seed") /\ ~Has("serving"))
    /\ (prev.seedFailed /\ Has("seed")) => store = SeededFrom(prev.pre, sess.now)

\* C11 witness: the start after a failed seeding of a store that lacked rows
\* has seeded it and serves.
C11_Witness ==
    /\ prev.seedFailed
    /\ TotalRows(prev.pre) < 5
    /\ pc = "yield"
    /\ TotalRows(store) = 5

\* C12: when engine.dispose() failed in close_db(), the run still ends with
\* no exception leaving lifespan().
C12_DisposalErrorNotEscalated ==
    (Has("fail@close_db") /\ pc = "done") => exc = "none"

\* C13: a consumer of get_db() that has left holds no connection, whichever
\* way it left, and the pool counts as checked out exactly the connections
\* that sessions hold: once every consumer has left, none.
C13_SessionsReleased ==
    /\ \A r \in Requests : sessions[r].at \in {"idle", "done"} => sessions[r].conn = 0
    /\ out = {sessions[r].conn : r \in Requests} \ {0}
    /\ (\A r \in Requests : sessions[r].at \in {"idle", "done"}) => out = {}

\* C13 witness: one consumer left by a business error and one by
\* cancellation, both after their sessions held a connection, and nothing is
\* checked out.
C13_Witness ==
    /\ \E r \in Requests :
         sessions[r].at = "done" /\ sessions[r].how = "error" /\ sessions[r].held
    /\ \E r \in Requests :
         sessions[r].at = "done" /\ sessions[r].how = "cancel" /\ sessions[r].held
    /\ out = {}

\* C15: no two sessions hold the same connection at the same time.
C15_ConnectionExclusive ==
    \A r1, r2 \in Requests :
        (r1 # r2 /\ sessions[r1].conn # 0) => sessions[r1].conn # sessions[r2].conn

\* C15 witness: two sessions hold connections at once, one of them on a
\* consumer slot that held a session before.
C15_Witness ==
    /\ \A r \in Requests : sessions[r].conn # 0
    /\ Cardinality(out) = MaxSessions

\* The store holds the baseline exactly: one GatewaySettings row, one
\* TimeoutSettings row with positive timeouts, one CliSettings row per CLI type.
BaselineExactly(st) ==
    /\ Len(st.gateway) = 1
    /\ Len(st.timeout) = 1
    /\ st.timeout[1].stream_first_byte_timeout > 0
    /\ st.timeout[1].stream_idle_timeout > 0
    /\ st.timeout[1].non_stream_timeout > 0
    /\ Len(st.cli) = Len(CliTypes)
    /\ \A k \in 1..Len(CliTypes) : Len(RowsWithKey(st, "cli", CliTypes[k])) = 1

\* Every row of the store is still there after the step, under the same key.
RowsKept ==
    \A t \in Tables : \A k \in 1..Len(store[t]) :
        /\ k <= Len(store'[t])
        /\ KeyOf(t, store'[t][k]) = KeyOf(t, store[t][k])

\* C16: once a seeding has returned, the store holds the baseline exactly,
\* in that run and in every later run of the process; and no step of the
\* lifecycle removes a row or changes the key of one.
C16_BaselineForever ==
    /\ [](seeds >= 1 => BaselineExactly(store))
    /\ [][RowsKept]_vars

\* C16 witness: the third start of the process serves, on a store that the
\* first start seeded.
C16_Witness ==
    /\ run >= 3
    /\ seeds >= 3
    /\ pc = "yield"
    /\ BaselineExactly(store)

\* C17: every setting resolves to the environment's value when the
\* environment sets its name, else to the environment file's value when the
\* file sets it, else to the compiled default; names that are no field of the
\* settings object (unknown, or a field's name in another case) change
\* nothing and raise nothing.
C17_ConfigPrecedence ==
    /\ Has("config") =>
          /\ settings.ok
          /\ settings.PROJECT_NAME =
                (IF env.PROJECT_NAME # Unset THEN "EnvName"
                 ELSE IF envFile.present /\ envFile.vars.PROJECT_NAME # Unset
                      THEN "FileName"
                 ELSE "CCG-Gateway")
          /\ settings.GATEWAY_PORT =
                (IF env.GATEWAY_PORT # Unset THEN 8080
                 ELSE IF envFile.present /\ envFile.vars.GATEWAY_PORT # Unset
                      THEN 9090
                 ELSE 7788)
    /\ Has("fail@import") =>
          \/ env.GATEWAY_PORT = "abc"
          \/ env.GATEWAY_PORT = Unset /\ envFile.present
                /\ envFile.vars.GATEWAY_PORT = "abc"

\* The environment sets one field and the file both, next to an unknown name
\* in the file and a wrong-case name in the environment.
C17_Witness ==
    /\ Has("config")
    /\ env.PROJECT_NAME = "EnvName" /\ env.GATEWAY_PORT = Unset
    /\ env.gateway_port = "1"
    /\ envFile.present
    /\ envFile.vars.PROJECT_NAME = "FileName" /\ envFile.vars.GATEWAY_PORT = "9090"
    /\ envFile.vars.UNKNOWN = "x"
    /\ settings.PROJECT_NAME = "EnvName" /\ settings.GATEWAY_PORT = 9090

\* The cases in which the claim C18 says settings resolution fails: the
\* environment file holds a value that is no value of its field, or the
\* process is bundled and the environment file is missing.
FailsAsClaimed ==
    \/ envFile.present /\ envFile.vars.GATEWAY_PORT = "abc"
    \/ frozen /\ ~envFile.present

\* What a start that Settings() ended has done: nothing.
AbortedUntouched ==
    /\ pc = "done" /\ exc = "ConfigurationError"
    /\ trace = <<"fail@import">>
    /\ engine = "none"
    /\ settings = NoSettings

\* C18 as stated: with a malformed environment file, or a missing one in
\* bundled mode, startup aborts with a configuration error before the data
\* directory, the engine, the schema or the seeding is touched.
C18_AsStated ==
    (FailsAsClaimed /\ pc # "import") => AbortedUntouched

\* C18, amended: when Settings() raises (the value that takes precedence for
\* a typed field is no value of its type), startup aborts with a
\* configuration error before the data directory is created, the engine is
\* built, the schema is applied or the seeding runs, and every start that gets
\* past the import runs with the fully resolved settings; a missing
\* environment file is no failure in either mode, and neither is a bad value
\* in the file that the environment overrides.
C18_ConfigErrorAborts ==
    /\ Has("fail@import") => AbortedUntouched
    /\ (pc # "import" /\ ~Has("fail@import")) =>
          (settings.ok /\ settings = Settings(env, envFile) /\ Has("mkdir"))
    /\ (pc # "import" /\ ~envFile.present /\ env.GATEWAY_PORT # "abc") =>
          ~Has("fail@import")
    /\ (pc # "import" /\ env.GATEWAY_PORT = "8080") => ~Has("fail@import")

\* Settings() raised on a bad port in the file, and the data directory that
\* was not there is still not there.
C18_Witness ==
    /\ Has("fail@import")
    /\ env.GATEWAY_PORT = Unset
    /\ envFile.present /\ envFile.vars.GATEWAY_PORT = "abc"
    /\ ~dataDir

\* Every baseline key is stored in st.
AllBaselineRows(st) ==
    \A key \in BaselineKeys : Len(RowsWithKey(st, key[1], key[2])) >= 1

\* C20: init_default_data that ran to completion on a store which already
\* held all five baseline rows left every field of every row as it was: the
\* timeouts (also those that are not 30/60/120), every default_json_config
\* and every updated_at.
C20_CompleteStoreUntouched ==
    (Has("seed") /\ AllBaselineRows(seedPre)) => store = seedPre

\* C20 witness: seeding completed, at a later time, on a complete store with
\* other timeouts and an edited configuration.
C20_Witness ==
    /\ Has("seed")
    /\ AllBaselineRows(seedPre)
    /\ seedPre.timeout[1].stream_first_byte_timeout = 45
    /\ seedPre.timeout[1].updated_at # sess.now
    /\ \E k \in 1..Len(seedPre.cli) : seedPre.cli[k].default_json_config = EditedConfig
    /\ store = seedPre

\* The rows a pass has added to its session.
AddedBy(p) == {passes[p].sess.new[k] : k \in 1..Len(passes[p].sess.new)}

\* C19: however two init_default_data passes on one store interleave their
\* selects, adds and commits, the committed store never holds a key of
\* GatewaySettings, TimeoutSettings or CliSettings twice, and of every pass
\* either all the rows it added are committed (the pass committed) or none.
C19_InterleavedSeeds ==
    /\ NoDuplicateKeys(store)
    /\ \A p \in Passes :
          /\ passes[p].result = "committed" => landed[p] = AddedBy(p)
          /\ passes[p].result # "committed" => landed[p] = {}

\* C19 witness: both passes found the gateway row missing and added it; one
\* committed its rows, the other's flush was refused and it committed none.
C19_Witness ==
    \E p, q \in Passes :
        /\ p # q
        /\ passes[p].result = "committed" /\ landed[p] # {}
        /\ passes[q].result = "failed" /\ passes[q].flushed = 0
        /\ \E k \in 1..Len(passes[q].sess.new) : passes[q].sess.new[k] \in landed[p]
        /\ NoDuplicateKeys(store)

====
